---- MODULE Spec2Model ----
(***************************************************************************)
(* Model of static/app.js: the browser-side orchestration of the RAW photo *)
(* batch processor.  The module-level objects `state` and `elements` of    *)
(* the script are the variables of the same names; every event handler,    *)
(* timer callback and promise continuation of the script is one action.    *)
(* Handlers run to completion between awaits (single-threaded event loop), *)
(* so an action is the code between two awaits.  The network and the       *)
(* EventSource channel are the environment: every request issued is        *)
(* appended to `requests`, and the response to a pending request may be    *)
(* any outcome the transport can produce, in any order.                    *)
(* Numeric adjustment values are in hundredths (1.0 is 100).               *)
(***************************************************************************)
EXTENDS Integers, Sequences, FiniteSets, TLC

VARIABLES
    state,        \* the script's `state` object                  (app.js 4-22)
    elements,     \* the properties of the DOM elements it writes (app.js 25-72)
    timers,       \* ids of the setTimeout timers scheduled and not yet fired or cleared
    requests,     \* log of every fetch issued, in issue order; a request's id is its index
    responses,    \* responses[r]: Pending, then "ok" or "failed" once the response arrived
    sources,      \* the EventSource objects created, in creation order
    alerts        \* the messages shown with alert(), in order

vars == <<state, elements, timers, requests, responses, sources, alerts>>

-----------------------------------------------------------------------------
(* Bounds of the model *)

MaxRequests == 3       \* fetches issued in one behaviour
MaxFiles == 2          \* files uploaded in one behaviour
MaxMessages == 3       \* message events delivered in one behaviour

-----------------------------------------------------------------------------
(* Settings *)

Null == 0

SliderOrder ==
    <<"exposure", "warmth", "contrast", "shadows", "highlights",
      "clarity", "vibrance", "vignette", "sharpness">>

Sliders == {SliderOrder[i] : i \in 1..Len(SliderOrder)}

DefaultSettings ==
    [n \in Sliders |-> IF n \in {"exposure", "contrast", "sharpness"} THEN 100 ELSE 0]

\* The declared range of a field: the min/max attributes of its range input.
RangeLo(n) == IF n \in {"exposure", "contrast", "sharpness"} THEN 0 ELSE -100

RangeHi(n) == IF n \in {"exposure", "contrast", "sharpness"} THEN 200 ELSE 100

\* Every adjustment field the object s holds lies within its range.
InRange(s) ==
    \A n \in Sliders \cap DOMAIN s : RangeLo(n) <= s[n] /\ s[n] <= RangeHi(n)

\* What slider.value can hold when the input event fires: the browser keeps
\* the value of a range input inside its min/max.
SliderInputs(n) == {RangeLo(n), RangeHi(n) - 50}

\* The slider the user moves: setupSliders installs the same handler on all
\* nine, so one of them stands for each.
InputSliders == {"exposure"}

\* Bodies the preset endpoint may answer with.
LandscapeLighting ==
    [DefaultSettings EXCEPT !["warmth"] = 30, !["shadows"] = 20, !["vignette"] = 15]

OutOfRangeSnapshot ==
    [DefaultSettings EXCEPT !["exposure"] = RangeHi("exposure") + 100]

PresetSnapshots == {DefaultSettings, LandscapeLighting, OutOfRangeSnapshot}

\* The JSON body of a non-success answer: {"error": "..."}.
ErrorBody == [error |-> "error"]

PresetNames == {"landscape-lighting", "default"}

\* ok: success status; status_json: non-success status with a JSON body;
\* status_nojson: non-success status whose body is not JSON (json() rejects);
\* neterr: fetch() itself rejects.
JsonOutcomes == {"ok", "status_json", "status_nojson", "neterr"}

\* Outcomes of a fetch whose body is not parsed as JSON.
BlobOutcomes == {"ok", "status", "neterr"}

-----------------------------------------------------------------------------
(* The world a handler transforms *)

World ==
    [state |-> state, elements |-> elements, timers |-> timers,
     requests |-> requests, responses |-> responses, sources |-> sources,
     alerts |-> alerts]

Commit(w) ==
    /\ state' = w.state
    /\ elements' = w.elements
    /\ timers' = w.timers
    /\ requests' = w.requests
    /\ responses' = w.responses
    /\ sources' = w.sources
    /\ alerts' = w.alerts

Pending == "pending"

\* fetch(url): the request joins the log and awaits its response.
Fetch(w, rec) ==
    [w EXCEPT !.requests = Append(@, rec),
              !.responses = Append(@, Pending)]

\* The response to request r has been delivered with this outcome; the log
\* keeps whether it was a success.
Settle(w, r, outcome) ==
    [w EXCEPT !.responses[r] = IF outcome = "ok" THEN "ok" ELSE "failed"]

\* Request r of the given kind awaits its response.
Awaiting(r, kind) ==
    /\ r \in 1..Len(requests)
    /\ responses[r] = Pending
    /\ requests[r].kind = kind

CanFetch == Len(requests) < MaxRequests

FileIds(fs) == [i \in 1..Len(fs) |-> fs[i].file_id]

RECURSIVE Filter(_, _)
Filter(fs, fileId) ==
    IF fs = <<>> THEN <<>>
    ELSE IF Head(fs).file_id # fileId
         THEN <<Head(fs)>> \o Filter(Tail(fs), fileId)
         ELSE Filter(Tail(fs), fileId)

-----------------------------------------------------------------------------
(* View helpers *)

showPreviewLoading(w, show) ==
    [w EXCEPT !.elements.previewLoading = IF show THEN "flex" ELSE "none"]

updateComparisonView(w) ==
    IF w.state.compareMode /\ w.state.activeFileId # Null
    THEN [w EXCEPT !.elements.previewImageDisplay = "none",
                   !.elements.comparisonContainer = "block"]
    ELSE [w EXCEPT !.elements.comparisonContainer = "none",
                   !.elements.previewImageDisplay =
                       IF w.state.activeFileId # Null THEN "block" ELSE @]

updateFileList(w) == [w EXCEPT !.elements.fileList = FileIds(w.state.files)]

updateUI(w) ==
    LET fs == w.state.files
        selectedCount == Cardinality({i \in 1..Len(fs) : fs[i].selected})
    IN  [updateFileList(w) EXCEPT
            !.elements.fileCount = Len(fs),
            !.elements.btnExportSelectedDisabled = (selectedCount = 0),
            !.elements.btnExportAllDisabled = (Len(fs) = 0)]

\* updateSlidersFromSettings throws (value.toFixed on undefined) as soon as
\* one of the nine fields is missing from the settings.
updateSlidersFromSettingsThrows(s) == \E n \in Sliders : n \notin DOMAIN s

-----------------------------------------------------------------------------
(* Preview pipeline *)

\* setTimeout returns an id that no live timer has (the least one, here).
NewTimerId(live) ==
    CHOOSE t \in 1..(Cardinality(live) + 1) :
        /\ t \notin live
        /\ \A u \in 1..(t - 1) : u \in live

\* setTimeout(callback, 300)
setTimeout(w) ==
    [w EXCEPT !.timers = @ \cup {NewTimerId(w.timers)},
              !.state.previewDebounce = NewTimerId(w.timers)]

\* clearTimeout(id): no effect when the timer has fired already.
clearTimeout(w, id) == [w EXCEPT !.timers = @ \ {id}]

\* updatePreview without its clearTimeout.
updatePreview_NoClear(w) ==
    IF w.state.activeFileId = Null THEN w ELSE setTimeout(w)

updatePreview(w) ==
    IF w.state.activeFileId = Null THEN w
    ELSE setTimeout(IF w.state.previewDebounce # Null
                    THEN clearTimeout(w, w.state.previewDebounce)
                    ELSE w)

\* The part of loadBeforeImage before its await: TRUE when it fetches.
loadBeforeImageFetches(w) == w.state.activeFileId # Null

loadBeforeImage(w, origin) ==
    IF ~loadBeforeImageFetches(w) THEN w
    ELSE Fetch(w, [kind |-> "before", file |-> w.state.activeFileId,
                   settings |-> DefaultSettings, origin |-> origin])

selectFile(w, fileId) ==
    updateFileList(updatePreview(
        [w EXCEPT !.state.activeFileId = fileId, !.state.beforeImageUrl = Null]))

\* The timer callback up to its await fetch(afterUrl).
TimerFire(t) ==
    /\ t \in timers
    /\ CanFetch
    /\ LET w1 == showPreviewLoading([World EXCEPT !.timers = @ \ {t}], TRUE)
           w2 == Fetch(w1, [kind |-> "after", file |-> w1.state.activeFileId,
                            settings |-> w1.state.settings])
       IN  Commit(w2)

\* The body of `if (response.ok)` up to the await of loadBeforeImage.
previewAccepted(w, r) ==
    [w EXCEPT !.elements.previewImageSrc = r,
              !.elements.previewImageDisplay =
                  IF w.state.compareMode THEN "none" ELSE "block",
              !.elements.previewPlaceholder = "none",
              !.state.afterImageUrl = r,
              !.elements.afterImageSrc = r]

previewNeedsBefore(w) == w.state.compareMode /\ w.state.beforeImageUrl = Null

\* A failed preview fetch that schedules another attempt.
previewDropped_Retry(w) == updatePreview(showPreviewLoading(w, FALSE))

\* The callback's path when the fetch rejects or answers a non-success
\* status: nothing but the log entry and showPreviewLoading(false).
previewDropped(w) == showPreviewLoading(w, FALSE)

\* The timer callback from the arrival of the preview response.
PreviewResponse(r, outcome) ==
    /\ Awaiting(r, "after")
    /\ outcome = "ok" => requests[r].file # Null
    /\ LET w0 == Settle(World, r, outcome)
       IN  IF outcome = "ok"
           THEN LET w1 == previewAccepted(w0, r)
                IN  IF previewNeedsBefore(w1) /\ loadBeforeImageFetches(w1)
                    THEN /\ CanFetch
                         /\ Commit(loadBeforeImage(w1, "preview"))
                    ELSE Commit(showPreviewLoading(updateComparisonView(w1), FALSE))
           ELSE Commit(previewDropped(w0))

\* loadBeforeImage from the arrival of its response, then the rest of the
\* handler that awaited it.
BeforeResponse(r, outcome) ==
    /\ Awaiting(r, "before")
    /\ LET w0 == Settle(World, r, outcome)
           w1 == IF outcome = "ok"
                 THEN [w0 EXCEPT !.state.beforeImageUrl = r,
                                 !.elements.beforeImageSrc = r]
                 ELSE w0
           w2 == IF requests[r].origin = "preview"
                 THEN showPreviewLoading(updateComparisonView(w1), FALSE)
                 ELSE updateComparisonView(showPreviewLoading(w1, FALSE))
       IN  Commit(w2)

\* The change handler of compareToggle up to its await.
CompareToggle ==
    LET w1 == [World EXCEPT !.state.compareMode = ~state.compareMode]
    IN  IF w1.state.compareMode /\ w1.state.activeFileId # Null
           /\ w1.state.beforeImageUrl = Null
        THEN /\ CanFetch
             /\ Commit(loadBeforeImage(showPreviewLoading(w1, TRUE), "toggle"))
        ELSE Commit(updateComparisonView(w1))

-----------------------------------------------------------------------------
(* Settings handlers *)

\* state.settings[name] = value
setField(s, name, value) ==
    [k \in DOMAIN s \cup {name} |-> IF k = name THEN value ELSE s[k]]

SliderInput(name, value) ==
    Commit(updatePreview([World EXCEPT !.state.settings = setField(@, name, value)]))

PresetClick(name) ==
    /\ CanFetch
    /\ Commit(Fetch(World, [kind |-> "preset", name |-> name]))

\* The preset/reset handler after `await response.json()` succeeded.
applyPreset(w, preset) ==
    LET w1 == [w EXCEPT !.state.settings = preset]
    IN  IF updateSlidersFromSettingsThrows(preset) THEN w1 ELSE updatePreview(w1)

PresetResponse(r, outcome, body) ==
    /\ Awaiting(r, "preset")
    /\ outcome = "ok" => body \in PresetSnapshots
    /\ outcome = "status_json" => body = ErrorBody
    /\ outcome \in {"status_nojson", "neterr"} => body = ErrorBody
    /\ LET w0 == Settle(World, r, outcome)
       IN  Commit(IF outcome \in {"ok", "status_json"} THEN applyPreset(w0, body) ELSE w0)

-----------------------------------------------------------------------------
(* File registry handlers *)

\* Files still queued behind the pending uploads among the first k requests.
RECURSIVE FilesQueued(_)
FilesQueued(k) ==
    IF k = 0 THEN 0
    ELSE FilesQueued(k - 1)
         + IF requests[k].kind = "upload" /\ responses[k] = Pending
           THEN requests[k].remaining ELSE 0

\* Files handed to handleFiles so far: uploads issued and uploads queued.
FilesUploaded ==
    Cardinality({i \in 1..Len(requests) : requests[i].kind = "upload"})
    + FilesQueued(Len(requests))

\* handleFiles(files) with one or more files: the first upload is issued.
HandleFiles(n) ==
    /\ CanFetch
    /\ FilesUploaded + n <= MaxFiles
    /\ Commit(Fetch(World, [kind |-> "upload", remaining |-> n - 1]))

\* A successful upload that registers the file without selecting it.
uploadSucceeded_NoSelect(w, fileId) ==
    [w EXCEPT !.state.files = Append(@, [file_id |-> fileId, selected |-> TRUE])]

\* The server assigns an id no other file has: here, the upload's request id.
uploadSucceeded(w, fileId) ==
    LET w1 == [w EXCEPT !.state.files =
                   Append(@, [file_id |-> fileId, selected |-> TRUE])]
    IN  IF w1.state.activeFileId = Null THEN selectFile(w1, fileId) ELSE w1

\* uploadFile from the arrival of its response, then handleFiles' loop.
UploadResponse(r, outcome) ==
    /\ Awaiting(r, "upload")
    /\ requests[r].remaining > 0 => CanFetch
    /\ LET w0 == Settle(World, r, outcome)
           w1 == IF outcome = "ok" THEN uploadSucceeded(w0, r)
                 ELSE [w0 EXCEPT !.alerts =
                          Append(@, [by |-> "uploadFile", request |-> r])]
           w2 == IF requests[r].remaining > 0
                 THEN Fetch(w1, [kind |-> "upload",
                                 remaining |-> requests[r].remaining - 1])
                 ELSE updateUI(w1)
       IN  Commit(w2)

FilenameClick(fileId) ==
    /\ \E i \in 1..Len(elements.fileList) : elements.fileList[i] = fileId
    /\ Commit(selectFile(World, fileId))

DeleteClick(fileId) ==
    /\ \E i \in 1..Len(elements.fileList) : elements.fileList[i] = fileId
    /\ CanFetch
    /\ Commit(Fetch(World, [kind |-> "delete", file |-> fileId]))

\* deleteFile that leaves the active file as it is.
fileDeleted_NoFallback(w, fileId) ==
    updateUI([w EXCEPT !.state.files = Filter(@, fileId)])

\* deleteFile that falls back to no active file even when files remain.
fileDeleted_FallbackNull(w, fileId) ==
    LET w1 == [w EXCEPT !.state.files = Filter(@, fileId)]
    IN  updateUI(IF w1.state.activeFileId = fileId
                 THEN [w1 EXCEPT !.state.activeFileId = Null,
                                 !.state.beforeImageUrl = Null,
                                 !.elements.previewImageDisplay = "none",
                                 !.elements.comparisonContainer = "none",
                                 !.elements.previewPlaceholder = "block"]
                 ELSE w1)

\* deleteFile after `await fetch(...)` resolved.
fileDeleted(w, fileId) ==
    LET w1 == [w EXCEPT !.state.files = Filter(@, fileId)]
        w2 == IF w1.state.activeFileId = fileId
              THEN LET w3 == [w1 EXCEPT
                                 !.state.activeFileId =
                                     IF Len(w1.state.files) > 0
                                     THEN w1.state.files[1].file_id ELSE Null,
                                 !.state.beforeImageUrl = Null]
                   IN  IF w3.state.activeFileId # Null THEN updatePreview(w3)
                       ELSE [w3 EXCEPT !.elements.previewImageDisplay = "none",
                                       !.elements.comparisonContainer = "none",
                                       !.elements.previewPlaceholder = "block"]
              ELSE w1
    IN  updateUI(w2)

DeleteResponse(r, outcome) ==
    /\ Awaiting(r, "delete")
    /\ LET w0 == Settle(World, r, outcome)
       IN  Commit(IF outcome = "neterr" THEN w0 ELSE fileDeleted(w0, requests[r].file))

ToggleSelected(fs, fileId, checked) ==
    [i \in 1..Len(fs) |->
        IF fs[i].file_id = fileId THEN [fs[i] EXCEPT !.selected = checked] ELSE fs[i]]

\* The change handler of a file item's checkbox.
CheckboxChange(fileId) ==
    /\ \E i \in 1..Len(elements.fileList) : elements.fileList[i] = fileId
    /\ \E checked \in BOOLEAN :
        Commit(updateUI([World EXCEPT
            !.state.files = ToggleSelected(@, fileId, checked)]))

\* A select-all that inverts each file's flag on its own.
toggleSelectAll_Invert(fs) ==
    [i \in 1..Len(fs) |-> [fs[i] EXCEPT !.selected = ~fs[i].selected]]

toggleSelectAll(fs) ==
    LET allSelected == \A i \in 1..Len(fs) : fs[i].selected
    IN  [i \in 1..Len(fs) |-> [fs[i] EXCEPT !.selected = ~allSelected]]

SelectAllClick == Commit(updateUI([World EXCEPT !.state.files = toggleSelectAll(@)]))

-----------------------------------------------------------------------------
(* Batch export *)

RECURSIVE selectedIds(_)
selectedIds(fs) ==
    IF fs = <<>> THEN <<>>
    ELSE IF Head(fs).selected
         THEN <<Head(fs).file_id>> \o selectedIds(Tail(fs))
         ELSE selectedIds(Tail(fs))

\* What the filename input holds after trim(): it is left empty here.
CustomFilenames == {""}

getCustomFilename(input) == IF input = "" THEN "null" ELSE input

\* startBatchExport up to its await.
startBatchExport(w, fileIds, input) ==
    Fetch([w EXCEPT !.elements.progressSection = "block",
                    !.elements.downloadSection = "none",
                    !.elements.progressFill = 0],
          [kind |-> "batch", file_ids |-> fileIds, settings |-> w.state.settings,
           custom_filename |-> getCustomFilename(input)])

ExportSelectedClick ==
    /\ ~elements.btnExportSelectedDisabled
    /\ Len(selectedIds(state.files)) > 0
    /\ CanFetch
    /\ \E input \in CustomFilenames :
        Commit(startBatchExport(World, selectedIds(state.files), input))

ExportAllClick ==
    /\ ~elements.btnExportAllDisabled
    /\ Len(state.files) > 0
    /\ CanFetch
    /\ \E input \in CustomFilenames :
        Commit(startBatchExport(World, FileIds(state.files), input))

\* new EventSource(url) and the two handlers installed on it.  `request` is
\* the job-creation request whose continuation opened it; `handled` lists
\* what its handlers have processed so far.
monitorBatchProgress(w, r, batchId) ==
    [w EXCEPT !.sources = Append(@, [request |-> r, batchId |-> batchId,
                                     readyState |-> "open", handled |-> <<>>])]

\* startBatchExport from the arrival of the job-creation response.  A
\* non-success answer with a JSON body has no batch_id: it destructures to
\* undefined and is passed on.
batchStarted(w, r, outcome) ==
    IF outcome \in {"ok", "status_json"}
    THEN monitorBatchProgress(w, r, IF outcome = "ok" THEN r ELSE Null)
    ELSE [w EXCEPT !.alerts = Append(@, [by |-> "startBatchExport", request |-> r]),
                   !.elements.progressSection = "none"]

BatchStartResponse(r, outcome) ==
    /\ Awaiting(r, "batch")
    /\ Commit(batchStarted(Settle(World, r, outcome), r, outcome))

\* Math.round((current / total) * 100)
Percent(current, total) == (200 * current + total) \div (2 * total)

eventSourceClose(w, i) == [w EXCEPT !.sources[i].readyState = "closed"]

Handled(w, i, what) == [w EXCEPT !.sources[i].handled = Append(@, what)]

showDownloadResults(w, results) ==
    [w EXCEPT !.elements.downloadSection = "block",
              !.elements.downloadResults = results]

\* eventSource.onmessage without the close() of its error branch.
onmessage_NoCloseOnError(w, i, data) ==
    IF data.error
    THEN [Handled(w, i, "error") EXCEPT
             !.alerts = Append(@, [by |-> "monitorBatchProgress",
                                   request |-> w.sources[i].request]),
             !.elements.progressSection = "none"]
    ELSE Handled([w EXCEPT !.elements.progressFill =
                               Percent(data.current, data.total)], i, "progress")

\* eventSource.onmessage
onmessage(w, i, data) ==
    IF data.error
    THEN [Handled(eventSourceClose(w, i), i, "error") EXCEPT
             !.alerts = Append(@, [by |-> "monitorBatchProgress",
                                   request |-> w.sources[i].request]),
             !.elements.progressSection = "none"]
    ELSE LET w1 == [w EXCEPT !.elements.progressFill =
                                 Percent(data.current, data.total)]
         IN  IF data.done
             THEN showDownloadResults(
                      Handled(eventSourceClose(w1, i), i, "done"),
                      w.sources[i].request)
             ELSE Handled(w1, i, "progress")

\* An onerror that leaves the EventSource open.
onerror_NoClose(w, i) == Handled(w, i, "transport")

\* eventSource.onerror
onerror(w, i) == Handled(eventSourceClose(w, i), i, "transport")

\* The events the channel of a job over `total` files may deliver: progress
\* after each file, the final record with done, or a record carrying error.
ProgressEvents(total) ==
    [error : {FALSE}, done : {FALSE}, current : 1..total, total : {total}]
    \cup {[error |-> FALSE, done |-> TRUE, current |-> total, total |-> total]}
    \cup [error : {TRUE}, done : BOOLEAN, current : {0}, total : {total}]

SourceTotal(i) ==
    IF sources[i].batchId = Null THEN 1 ELSE Len(requests[sources[i].batchId].file_ids)

RECURSIVE SumLen(_)
SumLen(ss) == IF ss = <<>> THEN 0 ELSE Len(Head(ss)) + SumLen(Tail(ss))

MessagesDelivered ==
    SumLen([i \in 1..Len(sources) |->
               SelectSeq(sources[i].handled, LAMBDA h : h # "transport")])

\* A message event is dispatched to an EventSource that is not closed.
SourceMessage(i, data) ==
    /\ i \in 1..Len(sources)
    /\ sources[i].readyState = "open"
    /\ MessagesDelivered < MaxMessages
    /\ data \in ProgressEvents(SourceTotal(i))
    /\ sources[i].batchId = Null => data.error
    /\ Commit(onmessage(World, i, data))

\* An error event is dispatched to an EventSource that is not closed.
SourceError(i) ==
    /\ i \in 1..Len(sources)
    /\ sources[i].readyState = "open"
    /\ Commit(onerror(World, i))

-----------------------------------------------------------------------------
(* Initial state: the module-level initialisers, before any event *)

Init ==
    /\ state = [files |-> <<>>, activeFileId |-> Null, settings |-> DefaultSettings,
                previewDebounce |-> Null, compareMode |-> FALSE,
                beforeImageUrl |-> Null, afterImageUrl |-> Null]
    /\ elements = [previewImageSrc |-> Null, previewImageDisplay |-> "none",
                   previewLoading |-> "none", previewPlaceholder |-> "block",
                   comparisonContainer |-> "none",
                   beforeImageSrc |-> Null, afterImageSrc |-> Null,
                   fileList |-> <<>>, fileCount |-> 0,
                   btnExportSelectedDisabled |-> FALSE, btnExportAllDisabled |-> FALSE,
                   progressSection |-> "none", progressFill |-> 0,
                   downloadSection |-> "none", downloadResults |-> Null]
    /\ timers = {}
    /\ requests = <<>>
    /\ responses = <<>>
    /\ sources = <<>>
    /\ alerts = <<>>

-----------------------------------------------------------------------------
(* The preview pipeline with the file registry and the settings *)

NextPreview ==
    \/ \E n \in 1..MaxFiles : HandleFiles(n)
    \/ \E r \in 1..MaxRequests, o \in JsonOutcomes : UploadResponse(r, o)
    \/ \E f \in 1..MaxRequests : FilenameClick(f)
    \/ \E f \in 1..MaxRequests : DeleteClick(f)
    \/ \E r \in 1..MaxRequests, o \in BlobOutcomes : DeleteResponse(r, o)
    \/ \E n \in InputSliders : \E v \in SliderInputs(n) : SliderInput(n, v)
    \/ \E t \in timers : TimerFire(t)
    \/ \E r \in 1..MaxRequests, o \in BlobOutcomes : PreviewResponse(r, o)
    \/ \E r \in 1..MaxRequests, o \in BlobOutcomes : BeforeResponse(r, o)
    \/ CompareToggle

SpecPreview == Init /\ [][NextPreview]_vars

(* The settings handlers with the preview pipeline of one file *)

NextSettings ==
    \/ HandleFiles(1)
    \/ \E r \in 1..MaxRequests, o \in JsonOutcomes : UploadResponse(r, o)
    \/ \E n \in InputSliders : \E v \in SliderInputs(n) : SliderInput(n, v)
    \/ \E name \in PresetNames : PresetClick(name)
    \/ \E r \in 1..MaxRequests, o \in JsonOutcomes, b \in PresetSnapshots \cup {ErrorBody} :
           PresetResponse(r, o, b)
    \/ \E t \in timers : TimerFire(t)
    \/ \E r \in 1..MaxRequests, o \in BlobOutcomes : PreviewResponse(r, o)

SpecSettings == Init /\ [][NextSettings]_vars

(* Batch export with the file registry *)

NextBatch ==
    \/ \E n \in 1..MaxFiles : HandleFiles(n)
    \/ \E r \in 1..MaxRequests, o \in JsonOutcomes : UploadResponse(r, o)
    \/ \E f \in 1..MaxRequests : CheckboxChange(f)
    \/ SelectAllClick
    \/ ExportSelectedClick
    \/ ExportAllClick
    \/ \E r \in 1..MaxRequests, o \in JsonOutcomes : BatchStartResponse(r, o)
    \/ \E i \in 1..Len(sources) : \E d \in ProgressEvents(SourceTotal(i)) :
           SourceMessage(i, d)
    \/ \E i \in 1..Len(sources) : SourceError(i)

SpecBatch == Init /\ [][NextBatch]_vars

(* The first upload with nothing done after it: files are chosen, the sliders
   are moved only while no file is active, and the pending debounce timer
   fires, as a timer that nobody clears does after its 300 ms. *)

NextUpload ==
    \/ \E n \in 1..MaxFiles : HandleFiles(n)
    \/ \E r \in 1..MaxRequests, o \in JsonOutcomes : UploadResponse(r, o)
    \/ /\ state.activeFileId = Null
       /\ \E n \in InputSliders : \E v \in SliderInputs(n) : SliderInput(n, v)
    \/ \E t \in timers : TimerFire(t)
    \/ \E r \in 1..MaxRequests, o \in BlobOutcomes : PreviewResponse(r, o)

SpecUpload ==
    /\ Init
    /\ [][NextUpload]_vars
    /\ WF_vars(\E t \in timers : TimerFire(t))

(* Every handler *)

Next == NextPreview \/ NextSettings \/ NextBatch

Spec == Init /\ [][Next]_vars

-----------------------------------------------------------------------------
(* Properties *)

RequestsOf(kind) == {r \in 1..Len(requests) : requests[r].kind = kind}

\* This step issues a fetch of the given kind.
Issues(kind) ==
    /\ Len(requests') = Len(requests) + 1
    /\ requests'[Len(requests')].kind = kind

\* This step delivers a failure to the pending request r.
Fails(r) == responses[r] = Pending /\ responses'[r] = "failed"

\* C1 (supersession ordering): the displayed preview never goes back to the
\* image of a request issued earlier than the one displayed, for the same
\* file: when an older request's response arrives after a newer one's, the
\* newer image stays.  Request ids are the issue order.
C1_SupersessionOrdering ==
    [][(/\ elements.previewImageSrc # Null
        /\ elements'.previewImageSrc # Null
        /\ requests[elements.previewImageSrc].file
               = requests[elements'.previewImageSrc].file)
       => elements'.previewImageSrc >= elements.previewImageSrc]_vars

\* C2 (debounce coalescing): at most one debounce timer is live, and it is
\* the one state.previewDebounce names; a preview fetch is issued only by
\* the elapse of that one timer, one fetch per elapse, and it carries the
\* settings and the active file of that moment, i.e. the values of the
\* last mutation.  So the mutations that each restart the timer before it
\* elapses end in exactly one fetch.
C2_DebounceCoalescing ==
    [][/\ Cardinality(timers') <= 1
       /\ timers' # {} => timers' = {state'.previewDebounce}
       /\ Issues("after") =>
            /\ timers = {state.previewDebounce}
            /\ timers' = {}
            /\ requests'[Len(requests')].settings = state.settings
            /\ requests'[Len(requests')].file = state.activeFileId
            /\ state'.settings = state.settings]_vars

\* Three scheduling calls (the upload's selectFile, a preset applied, a
\* slider moved) have coalesced into the one preview fetch issued so far,
\* which carries the slider's value on top of the preset's.
C2_Witness ==
    /\ Cardinality(RequestsOf("after")) = 1
    /\ \E r \in RequestsOf("after") :
           requests[r].settings = [LandscapeLighting EXCEPT !["exposure"] = 150]
    /\ timers = {}

\* C3 (batch terminal exclusivity): on every EventSource, nothing is handled
\* after a done event, an error event or a transport error, so a job gets
\* at most one terminal transition; and the source is closed exactly when
\* its last handled event was one of those.
C3_BatchTerminalExclusivity ==
    \A i \in 1..Len(sources) :
        LET h == sources[i].handled
        IN  /\ \A k \in 1..(Len(h) - 1) : h[k] = "progress"
            /\ sources[i].readyState = "closed"
                   <=> (h # <<>> /\ h[Len(h)] \in {"done", "error", "transport"})

\* A job failed by an in-band error after progress, and another completed.
C3_Witness ==
    /\ \E i \in 1..Len(sources) : sources[i].handled = <<"progress", "error">>
    /\ \E i \in 1..Len(sources) : sources[i].handled = <<"done">>

\* C4 (batch start failure): a job-creation request that failed has opened
\* no progress subscription and its failure was reported with alert().
C4_BatchStartFailure ==
    \A r \in RequestsOf("batch") :
        responses[r] = "failed" =>
            /\ \A i \in 1..Len(sources) : sources[i].request # r
            /\ \E k \in 1..Len(alerts) :
                   alerts[k] = [by |-> "startBatchExport", request |-> r]

\* C5 (batch stream transport failure): a transport error on the progress
\* channel closes the source and is reported to the user like an in-band
\* error.
C5_BatchStreamTransportFailure ==
    \A i \in 1..Len(sources) :
        (\E k \in 1..Len(sources[i].handled) : sources[i].handled[k] = "transport")
        => /\ sources[i].readyState = "closed"
           /\ \E k \in 1..Len(alerts) :
                  alerts[k] = [by |-> "monitorBatchProgress",
                               request |-> sources[i].request]

\* C6 (single lazy baseline fetch): every baseline fetch carries the default
\* settings, and for the active file at most one baseline fetch is ever
\* outstanding, none once the baseline is cached.
C6_SingleLazyBaselineFetch ==
    LET outstanding == {r \in RequestsOf("before") :
                           /\ requests[r].file = state.activeFileId
                           /\ responses[r] = Pending}
    IN  /\ \A r \in RequestsOf("before") : requests[r].settings = DefaultSettings
        /\ Cardinality(outstanding) <= 1
        /\ state.beforeImageUrl # Null => outstanding = {}

\* C7 (deleting the only file): while there is no active file the comparison
\* view is hidden and no preview fetch is issued.
C7_DeleteOnlyFile ==
    [][/\ state'.activeFileId = Null => elements'.comparisonContainer = "none"
       /\ state.activeFileId = Null => ~Issues("after")]_vars

\* C8 (clamping): the stored settings, and the settings of every preview and
\* batch request, have each of the nine fields within its declared range.
C8_Clamping ==
    /\ InRange(state.settings)
    /\ \A r \in RequestsOf("after") \cup RequestsOf("batch") :
           InRange(requests[r].settings)

\* C9 (preset failure leaves settings unchanged): the step that delivers a
\* failed preset or reset response changes neither the settings nor the
\* debounce timer.
C9_PresetFailure ==
    [][\A r \in RequestsOf("preset") :
           Fails(r) => /\ state'.settings = state.settings
                       /\ timers' = timers
                       /\ state'.previewDebounce = state.previewDebounce]_vars

\* C10 (preview failure is dropped): the step that delivers a failed preview
\* response leaves the accepted preview and the comparison's after image
\* as they were and neither issues nor schedules a fetch; a slider moved
\* with an active file always leaves a live timer; and a preview fetch is
\* issued only by a step in which a live timer elapses.
C10_PreviewFailureDropped ==
    [][/\ \A r \in RequestsOf("after") :
              Fails(r) => /\ elements'.previewImageSrc = elements.previewImageSrc
                          /\ elements'.afterImageSrc = elements.afterImageSrc
                          /\ state'.afterImageUrl = state.afterImageUrl
                          /\ requests' = requests
                          /\ timers' = timers
       /\ ((\E n \in InputSliders : \E v \in SliderInputs(n) : SliderInput(n, v))
             /\ state.activeFileId # Null)
              => timers' = {state'.previewDebounce}
       /\ Issues("after") =>
              \E t \in timers : timers' = timers \ {t}]_vars

\* A preview was accepted, a later one failed and the earlier image is still
\* displayed; a slider moved since has a fresh timer pending.
C10_Witness ==
    /\ \E r1, r2 \in RequestsOf("after") :
           /\ r1 < r2
           /\ responses[r1] = "ok"
           /\ responses[r2] = "failed"
           /\ elements.previewImageSrc = r1
           /\ state.afterImageUrl = r1
           /\ state.settings # requests[r2].settings
    /\ timers # {}

-----------------------------------------------------------------------------
(* Selection *)

AllSelected(fs) == \A i \in 1..Len(fs) : fs[i].selected
NoneSelected(fs) == \A i \in 1..Len(fs) : ~fs[i].selected
Range(s) == {s[i] : i \in 1..Len(s)}

\* C11: a click on "select all" deselects every file when all of them were
\* selected and selects every file otherwise, changing nothing but the
\* flags; in every reachable registry, applying the toggle twice gives the
\* registry back exactly when it was all-selected or none-selected; and
\* the selected ids are ids of files of the registry.
C11_SelectAllToggle ==
    [][/\ SelectAllClick =>
              /\ FileIds(state'.files) = FileIds(state.files)
              /\ IF AllSelected(state.files)
                 THEN NoneSelected(state'.files)
                 ELSE AllSelected(state'.files)
       /\ LET fs == state'.files
          IN  /\ (toggleSelectAll(toggleSelectAll(fs)) = fs)
                     <=> (AllSelected(fs) \/ NoneSelected(fs))
              /\ Range(selectedIds(fs)) \subseteq Range(FileIds(fs))]_vars

\* Two files with a mixed selection, which two toggles do not give back.
C11_Witness ==
    /\ Len(state.files) = 2
    /\ ~AllSelected(state.files)
    /\ ~NoneSelected(state.files)
    /\ toggleSelectAll(toggleSelectAll(state.files)) # state.files
    /\ AllSelected(toggleSelectAll(state.files))

-----------------------------------------------------------------------------
(* File registry *)

\* C12: in every reachable state the active file id is null or the id of a
\* file of the registry, whatever the interleaving of uploads, selections
\* and deletions whose responses arrive later.
C12_ActiveFileMembership ==
    \/ state.activeFileId = Null
    \/ state.activeFileId \in Range(FileIds(state.files))

\* The first file uploaded was deleted while a second one remained: the
\* remaining file is the active one.
C12_Witness ==
    /\ FileIds(state.files) = <<2>>
    /\ state.activeFileId = 2
    /\ \E r \in RequestsOf("delete") : requests[r].file = 1 /\ responses[r] # Pending

\* C13: whatever the outcome of the removal call (success, non-success
\* status, network error), once it is known the registry is the registry
\* without the file; for an id that is no longer in the registry this
\* leaves the registry as it is.
C13_BestEffortRemoval ==
    [][\A r \in RequestsOf("delete") :
           (responses[r] = Pending /\ responses'[r] # Pending)
               => state'.files = Filter(state.files, requests[r].file)]_vars

\* C14: when an upload succeeds the file joins the registry with
\* selected = TRUE; if no file was active it becomes the active one and a
\* debounced preview is scheduled; a failed upload adds nothing and leaves
\* the active file alone.  With nothing done after the first upload, at
\* most one preview fetch is ever issued, and one carrying the active file
\* and the current settings is eventually issued.
C14_FirstUploadBecomesActive ==
    /\ [][\A r \in RequestsOf("upload") :
              (responses[r] = Pending /\ responses'[r] # Pending) =>
                  IF responses'[r] = "ok"
                  THEN /\ state'.files =
                              Append(state.files, [file_id |-> r, selected |-> TRUE])
                       /\ IF state.activeFileId = Null
                          THEN /\ state'.activeFileId = r
                               /\ timers' = {state'.previewDebounce}
                          ELSE /\ state'.activeFileId = state.activeFileId
                               /\ timers' = timers
                  ELSE /\ state'.files = state.files
                       /\ state'.activeFileId = state.activeFileId]_vars
    /\ [](Cardinality(RequestsOf("after")) <= 1)
    /\ (state.activeFileId # Null)
           ~> (\E r \in RequestsOf("after") :
                   /\ requests[r].file = state.activeFileId
                   /\ requests[r].settings = state.settings)

\* The exposure slider was moved before the first file arrived; the file is
\* active and selected, and the one preview fetch carries the moved value.
C14_Witness ==
    /\ Len(state.files) > 0
    /\ state.files[1] = [file_id |-> state.activeFileId, selected |-> TRUE]
    /\ state.settings # DefaultSettings
    /\ timers = {}
    /\ \E r \in RequestsOf("after") :
           /\ requests[r].file = state.activeFileId
           /\ requests[r].settings = state.settings

-----------------------------------------------------------------------------
(* Settings *)

\* C15: settings mutations take effect in the order they were issued.  For
\* a preset click and a reset click, one issued before the other: once the
\* second one's snapshot has been applied, the arrival of the first one's
\* snapshot does not change the settings any more.
C15_MutationOrdering ==
    [][\A r1, r2 \in RequestsOf("preset") :
           (/\ r1 < r2
            /\ requests[r1].name # requests[r2].name
            /\ responses[r2] = "ok"
            /\ responses[r1] = Pending
            /\ responses'[r1] = "ok")
               => state'.settings = state.settings]_vars

-----------------------------------------------------------------------------
(* Preview of the active file *)

\* C16: in every reachable state a cached baseline image is the rendering,
\* with default settings, of the file that is active now; the response to a
\* baseline fetch made for a file that is no longer the active one never
\* becomes the cached baseline.
C16_BaselinePerActiveFile ==
    state.beforeImageUrl # Null =>
        /\ requests[state.beforeImageUrl].kind = "before"
        /\ requests[state.beforeImageUrl].settings = DefaultSettings
        /\ requests[state.beforeImageUrl].file = state.activeFileId

-----------------------------------------------------------------------------
(* Batch export supervision *)

\* The job of the i-th subscription is over: the subscription handled a done
\* event, an error event or a transport error.
JobTerminated(i) ==
    \E k \in 1..Len(sources[i].handled) :
        sources[i].handled[k] \in {"done", "error", "transport"}

\* C17: no subscription survives its job: in every reachable state an open
\* subscription is one whose job has not terminated, the subscription being
\* closed in the step that handles the done event, the error event or the
\* transport error.
C17_NoSubscriptionSurvivesJob ==
    \A i \in 1..Len(sources) :
        sources[i].readyState = "open" => ~JobTerminated(i)

\* One subscription was closed by a transport error and another by its done
\* event, while nothing is left open.
C17_Witness ==
    /\ \E i \in 1..Len(sources) :
           /\ sources[i].readyState = "closed"
           /\ sources[i].handled = <<"transport">>
    /\ \E i \in 1..Len(sources) :
           /\ sources[i].readyState = "closed"
           /\ sources[i].handled[Len(sources[i].handled)] = "done"

-----------------------------------------------------------------------------
(* Deletion *)

-----------------------------------------------------------------------------
(* Preview and active file *)

\* C19: the accepted preview belongs to the active file: whenever a step
\* installs an image as the displayed preview or as the comparison 'after'
\* image, that image is the rendering of the file that is active then, so
\* the response for a file the user has switched away from is not installed.
C19_PreviewBelongsToActiveFile ==
    [][/\ elements'.previewImageSrc # elements.previewImageSrc
              => requests[elements'.previewImageSrc].file = state'.activeFileId
       /\ elements'.afterImageSrc # elements.afterImageSrc
              => requests[elements'.afterImageSrc].file = state'.activeFileId]_vars

\* C20: at most one batch job is supervised at a time: in every reachable
\* state at most one progress subscription is open.
C20_SingleSupervisedJob ==
    Cardinality({i \in 1..Len(sources) : sources[i].readyState = "open"}) <= 1

====
